---- MODULE Spec2Model ----
\* A model of sfconversions: the conversion between the tagged nested arrays
\* (sfg / sfc objects) and geo-types geometries, and the rsgeo vctrs helpers.
\*
\* R values (savvy Sexp) are records
\*   [kind, cls, dim, buf, kids, geom]
\* kind "null" | "real" | "list" | "ptr"; cls is the class attribute (<<>> when
\* the attribute is absent), dim the dim attribute (<<>> when absent), buf the
\* numeric payload of a real vector, kids the elements of a list and geom the
\* geometry behind an external pointer.  Doubles are stood for by small
\* integers; nothing in the code computes with them.
\*
\* A Rust result is a record [tag, val, msg, reads]: tag "Ok" | "Err" | "Panic",
\* val the value of an Ok, msg the message of an Err or a panic, reads the
\* 0-based buffer offsets the call has read from its input, in order.
EXTENDS Integers, Sequences, FiniteSets, TLC

VARIABLES pc, op, arg, ret
vars == <<pc, op, arg, ret>>

-----------------------------------------------------------------------------
\* Bounds of the model.

MaxRows == 2
MaxKidRows == 1
MaxRings == 2
MaxPolys == 2
MaxCoords == 2
MaxVec == 3

\* The doubles the inputs are made of.
Vals == {0, 1}

-----------------------------------------------------------------------------
\* Results.

Ok(v) == [tag |-> "Ok", val |-> v, msg |-> "", reads |-> <<>>]
OkReads(v, r) == [tag |-> "Ok", val |-> v, msg |-> "", reads |-> r]
Err(m, r) == [tag |-> "Err", val |-> <<>>, msg |-> m, reads |-> r]
Panic(m, r) == [tag |-> "Panic", val |-> <<>>, msg |-> m, reads |-> r]
\* The ? operator on a failed result: the failure is handed on, with the reads made so far.
Fail(r, reads) == [r EXCEPT !.reads = reads \o r.reads]

NotAMatrix == "Not a matrix"
NotTwoColumns == "Matrix should have only 2 columns for x and y coordinates, respectively."
\* The error of a failed savvy conversion (TryFrom<Sexp>).
NotConvertible == "type mismatch"
IndexOutOfBounds == "index out of bounds"
UnwrapOnNone == "called Option::unwrap() on a None value"
NoRsPrefix == "Object is not an rsgeo vector with rs_ prefix"
NotRsgeoVector == "object is not an rsgeo vector"

-----------------------------------------------------------------------------
\* R values.

NoGeom == [type |-> "None", v |-> <<>>]
NullSexp == [kind |-> "null", cls |-> <<>>, dim |-> <<>>, buf |-> <<>>,
             kids |-> <<>>, geom |-> NoGeom]
RealSexp(cls, dim, buf) == [kind |-> "real", cls |-> cls, dim |-> dim, buf |-> buf,
                            kids |-> <<>>, geom |-> NoGeom]
ListSexp(cls, kids) == [kind |-> "list", cls |-> cls, dim |-> <<>>, buf |-> <<>>,
                        kids |-> kids, geom |-> NoGeom]
\* Geom -> Sexp: an external pointer to the geometry.
PtrSexp(cls, g) == [kind |-> "ptr", cls |-> cls, dim |-> <<>>, buf |-> <<>>,
                    kids |-> <<>>, geom |-> g]
set_class(x, cls) == [x EXCEPT !.cls = cls]

\* geo-types values.  Coord {x, y}; Point(Coord); LineString(Vec<Coord>),
\* MultiPoint(Vec<Point>), MultiLineString(Vec<LineString>) and
\* MultiPolygon(Vec<Polygon>) are their vectors; Polygon {exterior, interiors}.
Coord(x, y) == [x |-> x, y |-> y]
Point(x, y) == <<Coord(x, y)>>
Polygon(exterior, interiors) == [exterior |-> exterior, interiors |-> interiors]
Geometry(type, v) == [type |-> type, v |-> v]

-----------------------------------------------------------------------------
\* constructors.rs: the coordinate decoder.

\* usize is 64 bits wide; 2^30 stands for 2^64 here (the integers of TLC are 32 bits
\* wide), far above the length of every buffer of the model.
UsizeModulus == 2^30
AsUsize(v) == IF v < 0 THEN UsizeModulus + v ELSE v

to_index(i, j, nrow) == AsUsize(nrow * (j - 1) + i)

\* The loop for i in 0..nrow of matrix_to_coords, from iteration i on.
RECURSIVE coords_loop(_, _, _, _, _)
coords_loop(buf, nrow, i, coords, reads) ==
    IF i >= nrow THEN OkReads(coords, reads)
    ELSE LET ix == to_index(i, 0, nrow)
             iy == to_index(i, 1, nrow)
         IN  IF ix >= Len(buf) THEN Panic(IndexOutOfBounds, reads)
             ELSE IF iy >= Len(buf) THEN Panic(IndexOutOfBounds, Append(reads, ix))
             ELSE coords_loop(buf, nrow, i + 1,
                              Append(coords, Coord(buf[ix + 1], buf[iy + 1])),
                              reads \o <<ix, iy>>)

\* matrix_to_coords without its check of ncol.
matrix_to_coords_no_column_check(x) ==
    IF Len(x.dim) # 2 THEN Err(NotAMatrix, <<>>)
    ELSE coords_loop(x.buf, x.dim[1], 0, <<>>, <<>>)

matrix_to_coords(x) ==
    IF Len(x.dim) # 2 THEN Err(NotAMatrix, <<>>)
    ELSE IF x.dim[2] # 2 THEN Err(NotTwoColumns, <<>>)
    ELSE coords_loop(x.buf, x.dim[1], 0, <<>>, <<>>)

\* The loop for i in 0..nrow of matrix_to_points, from iteration i on.
RECURSIVE points_loop(_, _, _, _, _)
points_loop(buf, nrow, i, points, reads) ==
    IF i >= nrow THEN OkReads(points, reads)
    ELSE LET ix == to_index(i, 0, nrow)
             iy == to_index(i, 1, nrow)
         IN  IF ix >= Len(buf) THEN Panic(IndexOutOfBounds, reads)
             ELSE IF iy >= Len(buf) THEN Panic(IndexOutOfBounds, Append(reads, ix))
             ELSE points_loop(buf, nrow, i + 1,
                              Append(points, Point(buf[ix + 1], buf[iy + 1])),
                              reads \o <<ix, iy>>)

matrix_to_points(x) ==
    IF Len(x.dim) # 2 THEN Err(NotAMatrix, <<>>)
    ELSE IF x.dim[2] # 2 THEN Err(NotTwoColumns, <<>>)
    ELSE points_loop(x.buf, x.dim[1], 0, <<>>, <<>>)

-----------------------------------------------------------------------------
\* constructors.rs: the geometry constructors.

\* The ? operator: a failure of r is returned at once, else the code K that
\* follows runs on the value.  TryAfter is the same inside a loop that has
\* already made the reads `reads`.
Try(r, K(_)) == IF r.tag # "Ok" THEN r ELSE K(r)
TryAfter(r, reads, K(_)) == IF r.tag # "Ok" THEN Fail(r, reads) ELSE K(r)

\* Sexp -> RealSexp and Sexp -> ListSexp (TryFrom<Sexp>).
TryIntoReal(x) == IF x.kind = "real" THEN Ok(x) ELSE Err(NotConvertible, <<>>)
TryIntoList(x) == IF x.kind = "list" THEN Ok(x) ELSE Err(NotConvertible, <<>>)

geom_point(x, y) == Ok(PtrSexp(<<"point", "Geom">>, Geometry("Point", Point(x, y))))

geom_multipoint(x) ==
    Try(matrix_to_points(x),
        LAMBDA r : OkReads(PtrSexp(<<"multipoint", "Geom">>,
                                   Geometry("MultiPoint", r.val)), r.reads))

geom_linestring(x) ==
    Try(matrix_to_coords(x),
        LAMBDA r : OkReads(PtrSexp(<<"linestring", "Geom">>,
                                   Geometry("LineString", r.val)), r.reads))

\* Decoding the elements i.. of a list as LineStrings, stopping at the first
\* failure: the map(..).collect() of geom_multilinestring
\* and the for-xi-in-iter loops of geom_polygon and polygon_inner.
RECURSIVE linestrings_loop(_, _, _, _)
linestrings_loop(kids, i, lines, reads) ==
    IF i > Len(kids) THEN OkReads(lines, reads)
    ELSE TryAfter(TryIntoReal(kids[i]), reads, LAMBDA m :
         TryAfter(matrix_to_coords(m.val), reads, LAMBDA r :
         linestrings_loop(kids, i + 1, Append(lines, r.val), reads \o r.reads)))

geom_multilinestring(x) ==
    Try(linestrings_loop(x.kids, 1, <<>>, <<>>),
        LAMBDA r : OkReads(PtrSexp(<<"multilinestring", "Geom">>,
                                   Geometry("MultiLineString", r.val)), r.reads))

polygon_inner(x) ==
    IF Len(x.kids) = 0 THEN Err(NotAMatrix, <<>>)
    ELSE Try(TryIntoReal(x.kids[1]), LAMBDA m :
         Try(matrix_to_coords(m.val), LAMBDA exterior :
         Try(linestrings_loop(x.kids, 2, <<>>, exterior.reads), LAMBDA linestrings :
         OkReads(Polygon(exterior.val, linestrings.val), linestrings.reads))))

geom_polygon(x) ==
    IF Len(x.kids) = 0 THEN Err(NotAMatrix, <<>>)
    ELSE Try(TryIntoReal(x.kids[1]), LAMBDA m :
         Try(matrix_to_coords(m.val), LAMBDA exterior :
         Try(linestrings_loop(x.kids, 2, <<>>, exterior.reads), LAMBDA linestrings :
         OkReads(PtrSexp(<<"polygon", "Geom">>,
                         Geometry("Polygon", Polygon(exterior.val, linestrings.val))),
                 linestrings.reads))))

\* The map(..).collect() of geom_multipolygon, from element i on.
RECURSIVE polygons_loop(_, _, _, _)
polygons_loop(kids, i, polys, reads) ==
    IF i > Len(kids) THEN OkReads(polys, reads)
    ELSE TryAfter(TryIntoList(kids[i]), reads, LAMBDA l :
         TryAfter(polygon_inner(l.val), reads, LAMBDA r :
         polygons_loop(kids, i + 1, Append(polys, r.val), reads \o r.reads)))

geom_multipolygon(x) ==
    Try(polygons_loop(x.kids, 1, <<>>, <<>>),
        LAMBDA r : OkReads(PtrSexp(<<"multipolygon", "Geom">>,
                                   Geometry("MultiPolygon", r.val)), r.reads))

-----------------------------------------------------------------------------
\* fromsf.rs: the geometry builder.

\* Sexp -> the two doubles geom_point takes: a POINT is a real vector of its
\* two coordinates (fromsf.rs:81-84).
TryIntoXY(x) ==
    IF x.kind = "real" /\ Len(x.buf) = 2 THEN Ok(x) ELSE Err(NotConvertible, <<>>)

\* The arms of the match of sfg_to_rsgeo on the class component it looks at.
match_kind(tag, x) ==
    CASE tag = "POINT" ->
            Try(TryIntoXY(x), LAMBDA v : geom_point(v.val.buf[1], v.val.buf[2]))
      [] tag = "MULTIPOINT" -> Try(TryIntoReal(x), LAMBDA v : geom_multipoint(v.val))
      [] tag = "LINESTRING" -> Try(TryIntoReal(x), LAMBDA v : geom_linestring(v.val))
      [] tag = "MULTILINESTRING" ->
            Try(TryIntoList(x), LAMBDA v : geom_multilinestring(v.val))
      [] tag = "POLYGON" -> Try(TryIntoList(x), LAMBDA v : geom_polygon(v.val))
      [] tag = "MULTIPOLYGON" -> Try(TryIntoList(x), LAMBDA v : geom_multipolygon(v.val))
      [] OTHER -> Ok(NullSexp)

\* sfg_to_rsgeo matching on classes.get(0) instead of classes.get(1).
sfg_to_rsgeo_by_first_class(x) ==
    IF x.cls = <<>> THEN Ok(NullSexp)
    ELSE match_kind(x.cls[1], x)

sfg_to_rsgeo(x) ==
    IF x.cls = <<>> THEN Ok(NullSexp)
    ELSE IF Len(x.cls) < 2 THEN Ok(NullSexp)
    ELSE match_kind(x.cls[2], x)

\* The Geom struct around a geometry, and Sexp -> Geom.
Geom(g) == [geom |-> g]
TryIntoGeom(x, reads) ==
    IF x.kind = "ptr" THEN OkReads(Geom(x.geom), reads) ELSE Err(NotConvertible, reads)

sfg_to_geom(x) == Try(sfg_to_rsgeo(x), LAMBDA geom_sexp : TryIntoGeom(geom_sexp.val, geom_sexp.reads))

None == [some |-> FALSE, v |-> <<>>]
Some(v) == [some |-> TRUE, v |-> v]

\* The closure of sfc_to_geometry on the result of sfg_to_geom; out is the
\* vector collected so far.  A panic unwinds through the iterator.
geometry_item(geo, out) ==
    IF geo.tag = "Panic" THEN geo
    ELSE IF geo.tag = "Ok" THEN Ok(Append(out, Some(geo.val.geom)))
    ELSE Ok(Append(out, None))

\* x.values_iter().map(..).collect() of sfc_to_geometry, from element i on.
RECURSIVE geometry_loop(_, _, _)
geometry_loop(kids, i, out) ==
    IF i > Len(kids) THEN Ok(out)
    ELSE Try(geometry_item(sfg_to_geom(kids[i]), out),
             LAMBDA r : geometry_loop(kids, i + 1, r.val))

sfc_to_geometry(x) == geometry_loop(x.kids, 1, <<>>)

\* The closure of sfc_to_geoms on the result of sfg_to_geom.
geoms_item(geo, out) ==
    IF geo.tag = "Panic" THEN geo
    ELSE IF geo.tag = "Ok" THEN Ok(Append(out, Some(geo.val)))
    ELSE Ok(Append(out, None))

\* x.values_iter().map(..).collect() of sfc_to_geoms, from element i on.
RECURSIVE geoms_loop(_, _, _)
geoms_loop(kids, i, out) ==
    IF i > Len(kids) THEN Ok(out)
    ELSE Try(geoms_item(sfg_to_geom(kids[i]), out),
             LAMBDA r : geoms_loop(kids, i + 1, r.val))

sfc_to_geoms(x) == geoms_loop(x.kids, 1, <<>>)

-----------------------------------------------------------------------------
\* vctrs.rs: the classes of a vector of geometries.

\* str::to_uppercase and str::to_lowercase on the strings of the model.
to_uppercase(s) ==
    CASE s = "point" -> "POINT"
      [] s = "multipoint" -> "MULTIPOINT"
      [] s = "linestring" -> "LINESTRING"
      [] s = "multilinestring" -> "MULTILINESTRING"
      [] s = "polygon" -> "POLYGON"
      [] s = "multipolygon" -> "MULTIPOLYGON"
      [] s = "geometrycollection" -> "GEOMETRYCOLLECTION"
      [] s = "Geom" -> "GEOM"
      [] s = "sfg" -> "SFG"
      [] OTHER -> s

to_lowercase(s) ==
    CASE s = "POINT" -> "point"
      [] s = "MULTIPOINT" -> "multipoint"
      [] s = "LINESTRING" -> "linestring"
      [] s = "MULTILINESTRING" -> "multilinestring"
      [] s = "POLYGON" -> "polygon"
      [] s = "MULTIPOLYGON" -> "multipolygon"
      [] s = "GEOMETRYCOLLECTION" -> "geometrycollection"
      [] s = "XY" -> "xy"
      [] OTHER -> s

KindNames == {"point", "multipoint", "linestring", "multilinestring", "polygon",
              "multipolygon", "geometrycollection"}
\* What may follow the rs_ prefix of a class of the model.
Stems == KindNames \cup {to_uppercase(k) : k \in KindNames} \cup {""}

starts_with_rs(s) == \E k \in Stems : s = "rs_" \o k
\* String::split_off(3) of a string that starts with rs_.
split_off_3(s) == CHOOSE k \in Stems : s = "rs_" \o k

geom_class(cls) == <<"rs_" \o to_uppercase(cls), "rsgeo", "vctrs_vctr", "list">>

as_rsgeo_vctr(x, class) == Ok(set_class(x, geom_class(class)))

\* Option::unwrap.
Unwrap(present, v) == IF present THEN Ok(v) ELSE Panic(UnwrapOnNone, <<>>)

\* The map(..).collect() into the HashSet of determine_geoms_class, from
\* element i on: *x.get_class().unwrap().first().unwrap().
RECURSIVE classes_loop(_, _, _)
classes_loop(kids, i, classes) ==
    IF i > Len(kids) THEN Ok(classes)
    ELSE Try(Unwrap(kids[i].cls # <<>>, kids[i].cls),
             LAMBDA c : classes_loop(kids, i + 1, classes \cup {c.val[1]}))

\* The class of determine_geoms_class, from the set it collected.
class_of_set(classes) ==
    IF Cardinality(classes) > 1 THEN Ok("geometrycollection")
    ELSE Unwrap(classes # {}, CHOOSE c \in classes \cup {""} : c \in classes \/ classes = {})

determine_geoms_class(x) ==
    Try(classes_loop(x.kids, 1, {}), LAMBDA classes :
    Try(class_of_set(classes.val), LAMBDA class :
    Ok(geom_class(class.val))))

is_rsgeo(x) ==
    IF x.cls = <<>> THEN FALSE
    ELSE starts_with_rs(x.cls[1])

verify_rsgeo(x) ==
    IF is_rsgeo(x) THEN Ok(<<>>) ELSE Err("x must be a Rust geometry type", <<>>)

Contains(seq, e) == \E i \in 1..Len(seq) : seq[i] = e

rsgeo_type(x) ==
    IF x.cls = <<>> \/ Contains(x.cls, "rsgeo") THEN Err(NotRsgeoVector, <<>>)
    ELSE IF ~starts_with_rs(x.cls[1]) THEN Panic(NoRsPrefix, <<>>)
    ELSE Ok(to_lowercase(split_off_3(x.cls[1])))

\* fromsf.rs: sfc_to_rsgeo, from element i of its loop on.
RECURSIVE rsgeo_loop(_, _, _)
rsgeo_loop(kids, i, out) ==
    IF i > Len(kids) THEN Ok(out)
    ELSE TryAfter(sfg_to_rsgeo(kids[i]), <<>>,
                  LAMBDA r : rsgeo_loop(kids, i + 1, [out EXCEPT ![i] = r.val]))

sfc_to_rsgeo(x) ==
    Try(rsgeo_loop(x.kids, 1, [i \in 1..Len(x.kids) |-> NullSexp]), LAMBDA rsgeo :
    Try(determine_geoms_class(ListSexp(<<>>, rsgeo.val)), LAMBDA cls :
    Ok(ListSexp(cls.val, rsgeo.val))))

-----------------------------------------------------------------------------
\* tosf.rs: the serializer.

from_coord(x) == <<x.x, x.y>>

from_point(x) ==
    Ok(RealSexp(<<"XY", "POINT", "sfg">>, <<>>, from_coord(x[1])))

\* The loops of new_matrix, from the k-th (i, j) pair on, over the buffer out;
\* f(r, c) is x[r][c].
RECURSIVE new_matrix_loop(_, _, _, _, _)
new_matrix_loop(nrows, ncols, x, k, out) ==
    IF k >= nrows * ncols THEN Ok(RealSexp(<<>>, <<>>, out))
    ELSE LET i == k \div ncols
             j == k % ncols
             idx == to_index(i, j, nrows)
         IN  IF idx >= Len(out) THEN Panic(IndexOutOfBounds, <<>>)
             ELSE new_matrix_loop(nrows, ncols, x, k + 1,
                                  [out EXCEPT ![idx + 1] = x[i + 1][j + 1]])

new_matrix(nrows, ncols, x) ==
    new_matrix_loop(nrows, ncols, x, 0, [n \in 1..(nrows * ncols) |-> 0])

from_multipoint(x) ==
    Try(new_matrix(Len(x), 2, [n \in 1..Len(x) |-> from_coord(x[n][1])]),
        LAMBDA res : Ok(set_class(res.val, <<"XY", "MULTIPOINT", "sfg">>)))

from_linestring(x) ==
    Try(new_matrix(Len(x), 2, [n \in 1..Len(x) |-> from_coord(x[n])]),
        LAMBDA res : Ok(set_class(res.val, <<"XY", "LINESTRING", "sfg">>)))

\* for (i, line_string) in .. { out.set_value(i, from_linestring(line_string)?) }
RECURSIVE set_linestrings(_, _, _)
set_linestrings(lines, i, out) ==
    IF i > Len(lines) THEN Ok(out)
    ELSE Try(from_linestring(lines[i]),
             LAMBDA r : set_linestrings(lines, i + 1, [out EXCEPT ![i] = r.val]))

from_multilinestring(x) ==
    Try(set_linestrings(x, 1, [i \in 1..Len(x) |-> NullSexp]),
        LAMBDA out : Ok(ListSexp(<<"XY", "MULTILINESTRING", "sfg">>, out.val)))

from_polygon(x) ==
    Try(set_linestrings(<<x.exterior>> \o x.interiors, 1,
                        [i \in 1..(Len(x.interiors) + 1) |-> NullSexp]),
        LAMBDA out : Ok(ListSexp(<<"XY", "POLYGON", "sfg">>, out.val)))

\* for (i, polygon) in .. { out.set_value(i, from_polygon(polygon)?) }
RECURSIVE set_polygons(_, _, _)
set_polygons(polys, i, out) ==
    IF i > Len(polys) THEN Ok(out)
    ELSE Try(from_polygon(polys[i]),
             LAMBDA r : set_polygons(polys, i + 1, [out EXCEPT ![i] = r.val]))

from_multipolygon(x) ==
    Try(set_polygons(x, 1, [i \in 1..Len(x) |-> NullSexp]),
        LAMBDA out : Ok(ListSexp(<<"XY", "MULTIPOLYGON", "sfg">>, out.val)))

to_sfg(x) ==
    CASE x.geom.type = "Point" -> from_point(x.geom.v)
      [] x.geom.type = "MultiPoint" -> from_multipoint(x.geom.v)
      [] x.geom.type = "LineString" -> from_linestring(x.geom.v)
      [] x.geom.type = "MultiLineString" -> from_multilinestring(x.geom.v)
      [] x.geom.type = "Polygon" -> from_polygon(x.geom.v)
      [] x.geom.type = "MultiPolygon" -> from_multipolygon(x.geom.v)
      [] OTHER -> Ok(NullSexp)

\* The loop of geoms_to_sfc, from element i on.
RECURSIVE sfc_loop(_, _, _)
sfc_loop(x, i, out) ==
    IF i > Len(x) THEN Ok(ListSexp(<<>>, out))
    ELSE IF ~x[i].some THEN sfc_loop(x, i + 1, out)
    ELSE Try(to_sfg(x[i].v), LAMBDA r : sfc_loop(x, i + 1, [out EXCEPT ![i] = r.val]))

geoms_to_sfc(x) == sfc_loop(x, 1, [i \in 1..Len(x) |-> NullSexp])

-----------------------------------------------------------------------------
\* The inputs of the model.

SeqsUpTo(S, n) == UNION {[1..k -> S] : k \in 0..n}

SupportedKinds == {"POINT", "MULTIPOINT", "LINESTRING", "MULTILINESTRING",
                   "POLYGON", "MULTIPOLYGON"}
SfgClass(kind) == <<"XY", kind, "sfg">>

\* Column counts a matrix may declare.
ColCounts == {1, 2, 3}

\* Real vectors with a two-element dim attribute; R keeps the length of the
\* vector equal to the product of its dims.
Matrices ==
    {RealSexp(<<>>, <<r, c>>, b) :
        r \in 0..MaxRows, c \in ColCounts, b \in SeqsUpTo(Vals, MaxRows * 3)}
MatrixNodes == {m \in Matrices : Len(m.buf) = m.dim[1] * m.dim[2]}

\* Real vectors that are no matrix: no dim attribute, one dim, three dims.
NonMatrixNodes ==
    {RealSexp(<<>>, <<>>, b) : b \in SeqsUpTo(Vals, 2)}
    \cup {RealSexp(<<>>, <<Len(b)>>, b) : b \in SeqsUpTo(Vals, 2)}
    \cup {RealSexp(<<>>, <<Len(b) \div 2, 2, 1>>, b) : b \in {<<>>} \cup [1..2 -> Vals]}

\* The 3-row LINESTRING matrix with the column-major buffer [0,1,2, 10,11,12].
ScenarioMatrix == RealSexp(<<>>, <<3, 2>>, <<0, 1, 2, 10, 11, 12>>)

RealNodes == MatrixNodes \cup NonMatrixNodes \cup {ScenarioMatrix}

\* The elements of list nodes: matrices filled with one value, and NULL.
ConstMatrix(r, c, v) == RealSexp(<<>>, <<r, c>>, [n \in 1..(r * c) |-> v])
Kids == {ConstMatrix(r, c, v) : r \in 0..MaxKidRows, c \in {2, 3}, v \in Vals}
        \cup {NullSexp}
RingLists == {ListSexp(<<>>, k) : k \in SeqsUpTo(Kids, MaxRings)}

\* The elements of a MULTIPOLYGON: lists of rings, and NULL.
SmallKids == {ConstMatrix(0, 2, 0), ConstMatrix(1, 2, 0), ConstMatrix(0, 3, 0)}
PolygonKids == {ListSexp(<<>>, k) : k \in SeqsUpTo(SmallKids, MaxRings)}
               \cup {NullSexp}
PolygonLists == {ListSexp(<<>>, k) : k \in SeqsUpTo(PolygonKids, MaxPolys)}

\* sfg objects: a payload under the class of its kind.
SfgNodes ==
    {set_class(x, SfgClass(k)) :
        x \in RealNodes, k \in {"POINT", "MULTIPOINT", "LINESTRING"}}
    \cup {set_class(x, SfgClass(k)) : x \in RingLists, k \in {"MULTILINESTRING", "POLYGON"}}
    \cup {set_class(x, SfgClass("MULTIPOLYGON")) : x \in PolygonLists}

\* A few payloads of every type, for objects whose class and payload disagree
\* and for objects of other classes.
SamplePayloads ==
    {NullSexp, RealSexp(<<>>, <<>>, <<0, 1>>), ConstMatrix(0, 2, 0), ConstMatrix(1, 2, 1),
     ConstMatrix(1, 3, 0), ListSexp(<<>>, <<>>), ListSexp(<<>>, <<ConstMatrix(0, 2, 0)>>),
     ListSexp(<<>>, <<ListSexp(<<>>, <<ConstMatrix(0, 2, 0)>>)>>)}
FirstClasses == {"XY", "XYZ", "POINT", "LINESTRING"}
SecondClasses == SupportedKinds \cup {"point", "polygon", "GEOMETRYCOLLECTION",
                                      "TRIANGLE", "sfg", "XY"}
ClassVectors ==
    {<<>>} \cup {<<a>> : a \in FirstClasses}
    \cup {<<a, b>> : a \in FirstClasses, b \in SecondClasses}
    \cup {<<a, b, "sfg">> : a \in FirstClasses, b \in SecondClasses}
\* NULL carries no attributes.
ClassedSamples ==
    {NullSexp} \cup {set_class(x, c) : x \in SamplePayloads \ {NullSexp}, c \in ClassVectors}

BuilderInputs == SfgNodes \cup ClassedSamples

\* sfc objects: lists of sfg objects and NULLs.
SfcElements ==
    {set_class(RealSexp(<<>>, <<>>, <<0, 1>>), SfgClass("POINT")),
     set_class(ConstMatrix(0, 2, 0), SfgClass("LINESTRING")),
     set_class(ConstMatrix(1, 2, 1), SfgClass("LINESTRING")),
     set_class(ConstMatrix(1, 3, 0), SfgClass("LINESTRING")),
     ListSexp(SfgClass("POLYGON"), <<>>),
     ListSexp(SfgClass("POLYGON"), <<ConstMatrix(0, 2, 0)>>),
     ListSexp(SfgClass("MULTIPOLYGON"), <<>>),
     ListSexp(SfgClass("GEOMETRYCOLLECTION"), <<>>),
     NullSexp}
SfcLists == {ListSexp(<<>>, k) : k \in SeqsUpTo(SfcElements, MaxVec)}

\* geo-types geometries.
Coords == {Coord(x, y) : x \in Vals, y \in Vals}
Points == {Point(x, y) : x \in Vals, y \in Vals}
SmallLines == SeqsUpTo({Coord(0, 0), Coord(0, 1)}, 1)
SmallPolygons == {Polygon(e, i) : e \in {<<>>, <<Coord(0, 0)>>}, i \in {<<>>, << <<>> >>}}
UnsupportedTypes == {"Line", "Rect", "Triangle", "GeometryCollection"}
GeometryTypes == SupportedKinds \cup UnsupportedTypes
\* The geometries of one variant of the Geometry enum, named as sf names it.
GeometriesOf(t) ==
    CASE t = "POINT" -> {Geometry("Point", p) : p \in Points}
      [] t = "MULTIPOINT" -> {Geometry("MultiPoint", v) : v \in SeqsUpTo(Points, MaxCoords)}
      [] t = "LINESTRING" -> {Geometry("LineString", v) : v \in SeqsUpTo(Coords, MaxCoords)}
      [] t = "MULTILINESTRING" ->
            {Geometry("MultiLineString", v) : v \in SeqsUpTo(SmallLines, MaxRings)}
      [] t = "POLYGON" ->
            {Geometry("Polygon", Polygon(e, i)) :
                e \in SmallLines, i \in SeqsUpTo(SmallLines, MaxRings)}
      [] t = "MULTIPOLYGON" ->
            {Geometry("MultiPolygon", v) : v \in SeqsUpTo(SmallPolygons, MaxPolys)}
      [] OTHER -> {Geometry(t, <<>>)}

\* The optional geometries the vectors handed to geoms_to_sfc are made of.
OptionalGeoms ==
    <<None,
      Some(Geom(Geometry("Point", Point(0, 1)))),
      Some(Geom(Geometry("LineString", <<>>))),
      Some(Geom(Geometry("LineString", <<Coord(0, 1)>>))),
      Some(Geom(Geometry("MultiPolygon", <<>>))),
      Some(Geom(Geometry("Polygon", Polygon(<<>>, <<>>)))),
      Some(Geom(Geometry("Triangle", <<>>)))>>
GeomVector(ix) == [i \in 1..Len(ix) |-> OptionalGeoms[ix[i]]]
GeomVectorIndexes == SeqsUpTo(1..Len(OptionalGeoms), MaxVec)

\* Lists of Geom pointers (classed by their constructors) and NULLs.
EmptyGeometry(k) ==
    CASE k = "point" -> Geometry("Point", Point(0, 0))
      [] k = "polygon" -> Geometry("Polygon", Polygon(<<>>, <<>>))
      [] k = "multipoint" -> Geometry("MultiPoint", <<>>)
      [] k = "linestring" -> Geometry("LineString", <<>>)
      [] k = "multilinestring" -> Geometry("MultiLineString", <<>>)
      [] OTHER -> Geometry("MultiPolygon", <<>>)
GeomPointers == {PtrSexp(<<k, "Geom">>, EmptyGeometry(k)) : k \in KindNames \ {"geometrycollection"}}
PointerLists == {ListSexp(<<>>, k) : k \in SeqsUpTo(GeomPointers \cup {NullSexp}, MaxVec)}

\* Class attributes a list handed to the vctrs helpers may carry.
ContainerClasses ==
    {<<>>} \cup {geom_class(k) : k \in KindNames}
    \cup {<<"rs_" \o to_uppercase(k)>> : k \in KindNames}
    \cup {<<"rs_" \o k, "vctrs_vctr", "list">> : k \in KindNames}
    \cup {<<"list">>, <<"sfc_POINT", "sfc">>, <<"rsgeo">>, <<"data.frame">>,
          <<"rsgeo", "rs_POINT">>, <<"vctrs_vctr", "list">>}
ClassedLists ==
    {ListSexp(c, k) : c \in ContainerClasses,
                      k \in SeqsUpTo({PtrSexp(<<"point", "Geom">>, EmptyGeometry("point")),
                                      NullSexp}, 1)}

-----------------------------------------------------------------------------
\* The state machine: a caller invokes one public function at a time.  A call
\* that returns (a value or an Err) leaves pc = "returned"; a call that panics
\* leaves pc = "aborted", and nothing runs after it.

NoArg == <<>>

Init ==
    /\ pc = "idle"
    /\ op = "none"
    /\ arg = NoArg
    /\ ret = Ok(<<>>)

Idle == pc = "idle"

Finish(name, a, r) ==
    /\ pc' = IF r.tag = "Panic" THEN "aborted" ELSE "returned"
    /\ op' = name
    /\ arg' = a
    /\ ret' = r

MatrixToCoords ==
    /\ Idle
    /\ \E x \in RealNodes : Finish("matrix_to_coords", x, matrix_to_coords(x))

MatrixToPoints ==
    /\ Idle
    /\ \E x \in RealNodes : Finish("matrix_to_points", x, matrix_to_points(x))

SfgToRsgeo ==
    /\ Idle
    /\ \E x \in BuilderInputs : Finish("sfg_to_rsgeo", x, sfg_to_rsgeo(x))

SfgToGeom ==
    /\ Idle
    /\ \E x \in BuilderInputs : Finish("sfg_to_geom", x, sfg_to_geom(x))

SfcToRsgeo ==
    /\ Idle
    /\ \E x \in SfcLists : Finish("sfc_to_rsgeo", x, sfc_to_rsgeo(x))

SfcToGeometry ==
    /\ Idle
    /\ \E x \in SfcLists : Finish("sfc_to_geometry", x, sfc_to_geometry(x))

SfcToGeoms ==
    /\ Idle
    /\ \E x \in SfcLists : Finish("sfc_to_geoms", x, sfc_to_geoms(x))

ToSfg ==
    /\ Idle
    /\ \E t \in GeometryTypes : \E g \in GeometriesOf(t) :
            Finish("to_sfg", Geom(g), to_sfg(Geom(g)))

GeomsToSfc ==
    /\ Idle
    /\ \E ix \in GeomVectorIndexes :
            Finish("geoms_to_sfc", GeomVector(ix), geoms_to_sfc(GeomVector(ix)))

DetermineGeomsClass ==
    /\ Idle
    /\ \E x \in PointerLists :
            Finish("determine_geoms_class", x, determine_geoms_class(x))

AsRsgeoVctr ==
    /\ Idle
    /\ \E x \in PointerLists, class \in KindNames :
            Finish("as_rsgeo_vctr", <<x, class>>, as_rsgeo_vctr(x, class))

IsRsgeo ==
    /\ Idle
    /\ \E x \in ClassedLists : Finish("is_rsgeo", x, Ok(is_rsgeo(x)))

VerifyRsgeo ==
    /\ Idle
    /\ \E x \in ClassedLists : Finish("verify_rsgeo", x, verify_rsgeo(x))

RsgeoType ==
    /\ Idle
    /\ \E x \in ClassedLists : Finish("rsgeo_type", x, rsgeo_type(x))

\* The caller takes the result; the next call may follow.
Return ==
    /\ pc = "returned"
    /\ pc' = "idle"
    /\ op' = "none"
    /\ arg' = NoArg
    /\ ret' = Ok(<<>>)

Next ==
    \/ MatrixToCoords
    \/ MatrixToPoints
    \/ SfgToRsgeo
    \/ SfgToGeom
    \/ SfcToRsgeo
    \/ SfcToGeometry
    \/ SfcToGeoms
    \/ ToSfg
    \/ GeomsToSfc
    \/ DetermineGeomsClass
    \/ AsRsgeoVctr
    \/ IsRsgeo
    \/ VerifyRsgeo
    \/ RsgeoType
    \/ Return

Spec == Init /\ [][Next]_vars

-----------------------------------------------------------------------------
\* What the claims speak of.

\* The call of `name` is over: it returned or it panicked.
Called(name) == pc \in {"returned", "aborted"} /\ op = name

\* A matrix of doubles with two columns.
WellFormedMatrix(x) ==
    /\ x.kind = "real"
    /\ Len(x.dim) = 2
    /\ x.dim[2] = 2
    /\ Len(x.buf) = 2 * x.dim[1]
\* A real vector that declares no two dimensions, or no two columns.
BadShape(x) == x.kind = "real" /\ (Len(x.dim) # 2 \/ x.dim[2] # 2)

AllKids(x, P(_)) == \A i \in 1..Len(x.kids) : P(x.kids[i])
SomeKid(x, P(_)) == \E i \in 1..Len(x.kids) : P(x.kids[i])
WellFormedRings(x) == x.kind = "list" /\ Len(x.kids) >= 1 /\ AllKids(x, WellFormedMatrix)

\* A well-formed sfg object of one of the six kinds; a POINT is the vector of
\* its two coordinates (fromsf.rs:81-84, tosf.rs:73-79).
WellFormed(n) ==
    /\ Len(n.cls) = 3
    /\ n.cls = SfgClass(n.cls[2])
    /\ CASE n.cls[2] = "POINT" ->
                n.kind = "real" /\ Len(n.buf) = 2 /\ n.dim = <<>>
         [] n.cls[2] \in {"MULTIPOINT", "LINESTRING"} -> WellFormedMatrix(n)
         [] n.cls[2] = "MULTILINESTRING" -> n.kind = "list" /\ AllKids(n, WellFormedMatrix)
         [] n.cls[2] = "POLYGON" -> WellFormedRings(n)
         [] n.cls[2] = "MULTIPOLYGON" -> n.kind = "list" /\ AllKids(n, WellFormedRings)
         [] OTHER -> FALSE

\* The coordinates of a matrix read column-major: row i is
\* (buffer[0 * rows + i], buffer[1 * rows + i]), offsets counted from 0.
ColumnMajorCoords(x) ==
    [i \in 1..x.dim[1] |-> Coord(x.buf[0 * x.dim[1] + i], x.buf[1 * x.dim[1] + i])]
ColumnMajorPoints(x) ==
    [i \in 1..x.dim[1] |-> Point(x.buf[0 * x.dim[1] + i], x.buf[1 * x.dim[1] + i])]

-----------------------------------------------------------------------------
\* The claims.

\* C1: round trip.  For every well-formed node n of one of the six kinds,
\* sfg_to_geom(n) succeeds and to_sfg of the geometry it built is a node equal
\* to n: same class, same dims, same buffer, same children in the same order.
C1_RoundTrip ==
    (Called("sfg_to_geom") /\ WellFormed(arg)) =>
        /\ ret.tag = "Ok"
        /\ to_sfg(ret.val).tag = "Ok"
        /\ to_sfg(ret.val).val = arg

\* C2: coordinate decoding.  For a matrix with rows >= 0 rows, 2 columns and a
\* buffer of rows * 2 doubles, matrix_to_coords and matrix_to_points return
\* the rows coordinates (buffer[i], buffer[rows + i]) in row order, and every
\* offset they read lies in 0..rows*2-1.
C2_ColumnMajorDecoding ==
    ((Called("matrix_to_coords") \/ Called("matrix_to_points")) /\ WellFormedMatrix(arg)) =>
        /\ ret.tag = "Ok"
        /\ ret.val = IF op = "matrix_to_coords" THEN ColumnMajorCoords(arg)
                     ELSE ColumnMajorPoints(arg)
        /\ \A k \in 1..Len(ret.reads) : ret.reads[k] \in 0..(2 * arg.dim[1] - 1)

\* The decoders reject a real vector of a bad shape before they read it.
RejectedUnread ==
    (Called("matrix_to_coords") \/ Called("matrix_to_points")) /\ BadShape(arg) =>
        /\ pc = "returned"
        /\ ret.tag = "Err"
        /\ ret.msg \in {NotAMatrix, NotTwoColumns}
        /\ ret.reads = <<>>

\* The builder rejects a node of kind `kinds` whose payload has a bad shape.
KindRejected(kinds) ==
    (Called("sfg_to_rsgeo") /\ Len(arg.cls) >= 2 /\ arg.cls[2] \in kinds /\ BadShape(arg)) =>
        /\ pc = "returned"
        /\ ret.tag = "Err"
        /\ ret.reads = <<>>

\* A list node with a matrix child of a bad shape never decodes to a geometry,
\* and decodes to the error when that child is the first the decoder meets.
BadShapeRings(x) == x.kind = "list" /\ SomeKid(x, BadShape)
FirstKidBad(x) == x.kind = "list" /\ Len(x.kids) >= 1 /\ BadShape(x.kids[1])
ListKidRejected ==
    (Called("sfg_to_rsgeo") /\ Len(arg.cls) >= 2 /\ arg.kind = "list") =>
        /\ (arg.cls[2] \in {"MULTILINESTRING", "POLYGON"} /\ BadShapeRings(arg))
              => ret.tag # "Ok"
        /\ (arg.cls[2] = "MULTIPOLYGON" /\ SomeKid(arg, BadShapeRings))
              => ret.tag # "Ok"
        /\ (arg.cls[2] \in {"MULTILINESTRING", "POLYGON"} /\ FirstKidBad(arg))
              => (ret.tag = "Err" /\ ret.reads = <<>>)
        /\ (arg.cls[2] = "MULTIPOLYGON" /\ Len(arg.kids) >= 1 /\ FirstKidBad(arg.kids[1]))
              => (ret.tag = "Err" /\ ret.reads = <<>>)

C4_EmptyExterior ==
    (Called("sfg_to_rsgeo") /\ Len(arg.cls) >= 2 /\ arg.kind = "list") =>
        /\ (arg.cls[2] = "POLYGON" /\ Len(arg.kids) = 0)
              => (ret.tag = "Err" /\ ret.msg = NotAMatrix)
        /\ (arg.cls[2] = "MULTIPOLYGON"
            /\ \E i \in 1..Len(arg.kids) :
                    arg.kids[i].kind = "list" /\ Len(arg.kids[i].kids) = 0)
              => (ret.tag = "Err" /\ ret.msg = NotAMatrix)
        /\ (arg.cls[2] = "POLYGON" /\ WellFormedRings(arg))
              => /\ ret.tag = "Ok"
                 /\ ret.val.geom.type = "Polygon"
                 /\ ret.val.geom.v.exterior = ColumnMajorCoords(arg.kids[1])
                 /\ ret.val.geom.v.interiors =
                        [i \in 1..(Len(arg.kids) - 1) |-> ColumnMajorCoords(arg.kids[i + 1])]

\* C5: classifier.  determine_geoms_class looks at the first class of the
\* non-NULL elements only: one class among them gives the class of that kind,
\* more than one gives geometrycollection.
NonNullClasses(x) == {x.kids[i].cls[1] : i \in {j \in 1..Len(x.kids) : x.kids[j] # NullSexp}}
C5_ClassifierIgnoresNull ==
    Called("determine_geoms_class") =>
        /\ Cardinality(NonNullClasses(arg)) = 1
              => /\ ret.tag = "Ok"
                 /\ \E k \in NonNullClasses(arg) : ret.val = geom_class(k)
        /\ Cardinality(NonNullClasses(arg)) > 1
              => /\ ret.tag = "Ok"
                 /\ ret.val = geom_class("geometrycollection")

\* C6: rsgeo_type.  On a list classed by geom_class(k) it returns Ok(k); it
\* returns the error exactly when the class is absent or its first class
\* lacks the rs_ prefix; it succeeds wherever is_rsgeo is true.
C6_RsgeoTypeOfGeomClass ==
    Called("rsgeo_type") =>
        /\ \A k \in KindNames :
              arg.cls = geom_class(k) => (ret.tag = "Ok" /\ ret.val = k)
        /\ ret.tag = "Err" <=> (arg.cls = <<>> \/ ~starts_with_rs(arg.cls[1]))
        /\ is_rsgeo(arg) => ret.tag = "Ok"

\* C7: no call panics.
C7_NoPanic == pc # "aborted"

\* C8: dispatch.  sfg_to_rsgeo returns Ok(NULL) for every node whose class has
\* no second component or one that is none of the six kinds, whatever the node
\* holds; for the others the result is that of the node under the plain class
\* of its second component: no other component of the class counts.
SecondClass(x) == IF Len(x.cls) >= 2 THEN x.cls[2] ELSE ""
SameResult(r, q) ==
    /\ r.tag = q.tag
    /\ r.msg = q.msg
    /\ r.reads = q.reads
    /\ r.tag = "Ok" => r.val = q.val
C8_DispatchOnSecondClass ==
    Called("sfg_to_rsgeo") =>
        /\ SecondClass(arg) \notin SupportedKinds
              => (pc = "returned" /\ ret.tag = "Ok" /\ ret.val = NullSexp)
        /\ SecondClass(arg) \in SupportedKinds
              => SameResult(ret, match_kind(SecondClass(arg), arg))

\* C8 witness: a list under the class XY, polygon (lower case), sfg came back
\* as NULL.
C8_Witness ==
    /\ Called("sfg_to_rsgeo")
    /\ arg.kind = "list"
    /\ Len(arg.kids) = 1
    /\ arg.cls = <<"XY", "polygon", "sfg">>
    /\ ret.tag = "Ok"
    /\ ret.val = NullSexp

\* C9: element-local vectors.  sfc_to_geometry, sfc_to_geoms and sfc_to_rsgeo
\* return a vector as long as their input whose element i is what element i
\* of the input alone decodes to, and None / NULL where that decoding fails.
ElementAlone(name, x) ==
    CASE name = "sfc_to_geometry" ->
            IF sfg_to_geom(x).tag = "Ok" THEN Some(sfg_to_geom(x).val.geom) ELSE None
      [] name = "sfc_to_geoms" ->
            IF sfg_to_geom(x).tag = "Ok" THEN Some(sfg_to_geom(x).val) ELSE None
      [] OTHER ->
            IF sfg_to_rsgeo(x).tag = "Ok" THEN sfg_to_rsgeo(x).val ELSE NullSexp
Elements(name, r) == IF name = "sfc_to_rsgeo" THEN r.val.kids ELSE r.val
C9_ElementLocal ==
    (Called("sfc_to_geometry") \/ Called("sfc_to_geoms") \/ Called("sfc_to_rsgeo")) =>
        /\ ret.tag = "Ok"
        /\ Len(Elements(op, ret)) = Len(arg.kids)
        /\ \A i \in 1..Len(arg.kids) :
              Elements(op, ret)[i] = ElementAlone(op, arg.kids[i])

\* C10: geoms_to_sfc returns a list as long as its input, NULL where the
\* input is None and to_sfg of the geometry where it is Some; a MultiPolygon
\* of no polygons becomes a classed list of no children, not NULL.
C10_PositionsKept ==
    Called("geoms_to_sfc") =>
        /\ ret.tag = "Ok"
        /\ Len(ret.val.kids) = Len(arg)
        /\ \A i \in 1..Len(arg) :
              /\ ~arg[i].some => ret.val.kids[i] = NullSexp
              /\ arg[i].some =>
                    /\ to_sfg(arg[i].v).tag = "Ok"
                    /\ ret.val.kids[i] = to_sfg(arg[i].v).val
              /\ (arg[i].some /\ arg[i].v.geom.type = "MultiPolygon"
                  /\ Len(arg[i].v.geom.v) = 0)
                    => ret.val.kids[i] = ListSexp(<<"XY", "MULTIPOLYGON", "sfg">>, <<>>)

====
